---- MODULE Spec2Model ----
(***************************************************************************)
(* Background alarm engine of service-worker.js: the 'message' listener    *)
(* that stores the alarm groups and (re)arms the periodic check, and       *)
(* checkBackgroundAlarms, the scan that notifies at most one due alarm.    *)
(*                                                                         *)
(* Time is the value of Date.getTime() in milliseconds, read in UTC.  The  *)
(* callback of an armed interval timer runs at the instant it is due, and  *)
(* handlers run to completion (one JavaScript thread): a message may be    *)
(* handled at the same millisecond as a tick, before or after it.          *)
(***************************************************************************)
EXTENDS Integers, Sequences, FiniteSets, TLC

VARIABLES
    now,                    \* the wall clock, new Date().getTime()
    alarmCheckInterval,     \* line 13: handle of the armed timer, 0 for null
    timers,                 \* the host's active interval timers: handle -> due instant
    backgroundAlarmGroups,  \* line 14: the held snapshot, a boxed JS value
    lastNotifiedAlarmId,    \* line 15
    lastNotificationTime,   \* line 16
    notifications,          \* the showNotification calls of the tick of this instant
    tick,                   \* history: the run of checkBackgroundAlarms of this instant
    lastFired,              \* history: per alarm id, the instant of its last notification
    snapshotSince,          \* history: instant since which the held snapshot is the delivered one
    minute,                 \* history: the ticks and notifications of the current minute
    refused,                \* history: the ids whose latest notification the host refused to present
    update                  \* history: the message handled last at this instant, and the state before it

vars == <<now, alarmCheckInterval, timers, backgroundAlarmGroups, lastNotifiedAlarmId,
          lastNotificationTime, notifications, tick, lastFired, snapshotSince, minute,
          refused, update>>

----------------------------------------------------------------------------
(* Program constants *)

CHECK_INTERVAL == 30000

COOLDOWN == 60000

DAYS_OF_WEEK == <<"Sun", "Mon", "Tue", "Wed", "Thu", "Fri", "Sat">>

MsPerMinute == 60 * 1000

MsPerHour == 60 * MsPerMinute

MsPerDay == 24 * MsPerHour

(* Bounds of the model *)

\* the clock advances in steps of CHECK_INTERVAL / StepsPerInterval milliseconds
StepsPerInterval == 2

\* number of clock steps explored after the start instant
MaxSteps == 8

Step == CHECK_INTERVAL \div StepsPerInterval

\* Monday 1970-01-05 23:59:00 UTC (1970-01-01 was a Thursday)
StartTime == ((4 * 24 + 23) * 60 + 59) * MsPerMinute

MaxTime == StartTime + MaxSteps * Step

\* the initial null of lastNotifiedAlarmId, distinct from every alarm id
NULL_ID == "null"

\* history marker: the id has not been notified yet
NEVER == 0 - 1

----------------------------------------------------------------------------
(* Date *)

getDay(t) == (4 + (t \div MsPerDay)) % 7

getHours(t) == (t \div MsPerHour) % 24

getMinutes(t) == (t \div MsPerMinute) % 60

\* mutant of padStart2: no padding
padStart2_Bare(s) == s

padStart2(s) == IF Len(s) < 2 THEN "0" \o s ELSE s

currentDayOf(t) == DAYS_OF_WEEK[getDay(t) + 1]

currentTimeOf(t) == padStart2(ToString(getHours(t))) \o ":" \o padStart2(ToString(getMinutes(t)))

MinuteStart(t) == t - (t % MsPerMinute)

----------------------------------------------------------------------------
(* JavaScript values: an absent property is a field missing from the record *)

Has(obj, field) == field \in DOMAIN obj

Truthy(obj, field) == Has(obj, field) /\ obj[field] = TRUE

Includes(arr, x) == \E i \in 1..Len(arr) : arr[i] = x

Undefined == [type |-> "undefined"]

Array(items) == [type |-> "array", items |-> items]

----------------------------------------------------------------------------
(* The snapshots a foreground page may post.  Ids are unique in a snapshot. *)

Ids == {"a1", "a2", "a3"}

Times == {"23:59", "00:00"}

DaysValues == {<<>>, <<"Mon">>, <<"Tue">>}

LabelOf(id) == IF id = "a1" THEN "Wake up" ELSE ""

AlarmBase(id, time) == [id |-> id, label |-> LabelOf(id), time |-> time]

\* a well-formed alarm: enabled flag and days both present
Alarm(id, time, days, enabled) == AlarmBase(id, time) @@ [days |-> days, isEnabled |-> enabled]

\* the shapes of one alarm: its days given, empty or absent, or its flag false or absent
AlarmShapes(id, time) ==
    LET b == AlarmBase(id, time)
    IN  {b @@ [isEnabled |-> TRUE]}
            \cup {Alarm(id, time, d, TRUE) : d \in DaysValues}
            \cup {b @@ [days |-> <<>>], Alarm(id, time, <<>>, FALSE)}

Group(name, enabled, alarms) == [name |-> name, isEnabled |-> enabled, alarms |-> alarms]

\* one enabled group holding one alarm, of each shape
SingleAlarmSnapshots ==
    {<<Group("Work", TRUE, <<a>>)>> : a \in UNION {AlarmShapes("a1", t) : t \in Times}}

\* one well-formed due-able alarm in a group that is disabled or has no flag
GroupFlagSnapshots ==
    UNION {{<<Group("Work", FALSE, <<Alarm("a1", t, <<>>, TRUE)>>)>>,
            <<[name |-> "Work", alarms |-> <<Alarm("a1", t, <<>>, TRUE)>>]>>} : t \in Times}

\* two well-formed enabled alarms, a1 ahead of a2, in one group or in two groups
PairSnapshots ==
    UNION {LET x == Alarm("a1", t1, <<>>, TRUE)
               y == Alarm("a2", t2, <<>>, TRUE)
           IN  {<<Group("Work", TRUE, <<x, y>>)>>,
                <<Group("Work", TRUE, <<x>>), Group("Home", TRUE, <<y>>)>>}
           : t1 \in Times, t2 \in Times}

\* an enabled group without an alarms collection ahead of a well-formed group
PartialGroupSnapshots ==
    {<<[name |-> "Work", isEnabled |-> TRUE],
       Group("Home", TRUE, <<Alarm("a1", t, <<>>, TRUE)>>)>> : t \in Times}

\* three well-formed enabled alarms of one time of day in one group
TripleSnapshots ==
    {<<Group("Work", TRUE, <<Alarm("a1", t, <<>>, TRUE), Alarm("a2", t, <<>>, TRUE),
                             Alarm("a3", t, <<>>, TRUE)>>)>> : t \in Times}

Snapshots ==
    {<<>>} \cup SingleAlarmSnapshots \cup GroupFlagSnapshots \cup PairSnapshots
           \cup PartialGroupSnapshots \cup TripleSnapshots

\* event.data of the messages the worker receives
Messages ==
    {[type |-> "UPDATE_ALARMS", alarms |-> s] : s \in Snapshots}
        \cup {[type |-> "UPDATE_ALARMS"], [type |-> "SKIP_WAITING"]}

----------------------------------------------------------------------------
(* checkBackgroundAlarms, lines 113-148, and showNotification, lines 150-164 *)

\* the state a scan carries: the module's dedup pair, the calls made, how it ended
ScanStart ==
    [id |-> lastNotifiedAlarmId, time |-> lastNotificationTime,
     calls |-> <<>>, returned |-> FALSE, threw |-> FALSE]

Throw(st) == [st EXCEPT !.returned = TRUE, !.threw = TRUE]

\* line 151: alarm.label || 'Alarm!'
TitleOf(alarm) == IF Has(alarm, "label") /\ alarm.label # "" THEN alarm.label ELSE "Alarm!"

\* lines 150-164: the call and the notification it asks the host to present
showNotification(alarm, group) ==
    [alarm |-> alarm, group |-> group,
     title |-> TitleOf(alarm),
     body |-> "From group: " \o group.name \o ". Time: " \o alarm.time,
     tag |-> alarm.id]

\* mutant of isToday: the days of the alarm are ignored
isToday_Always(alarm, currentDay) == TRUE

\* line 130: alarm.days.length === 0 || alarm.days.includes(currentDay)
isToday(alarm, currentDay) == Len(alarm.days) = 0 \/ Includes(alarm.days, currentDay)

\* line 134, second conjunct: not the alarm that just fired, or the cooldown is over
NotJustFired(alarm, st, nowTime) == alarm.id # st.id \/ (nowTime - st.time) > COOLDOWN

\* mutant of Notify: the return of line 144 is missing
Notify_NoReturn(st, alarm, group, nowTime) ==
    [st EXCEPT !.id = alarm.id, !.time = nowTime,
               !.calls = Append(@, showNotification(alarm, group))]

\* mutant of Notify: the instant of the notification is not recorded
Notify_KeepTime(st, alarm, group, nowTime) ==
    [st EXCEPT !.id = alarm.id,
               !.calls = Append(@, showNotification(alarm, group)),
               !.returned = TRUE]

\* lines 137-144: record the alarm, notify, return
Notify(st, alarm, group, nowTime) ==
    [st EXCEPT !.id = alarm.id, !.time = nowTime,
               !.calls = Append(@, showNotification(alarm, group)),
               !.returned = TRUE]

\* mutant of SkipAlarm: the alarm's own flag is not tested
SkipAlarm_TimeOnly(alarm, t) == alarm.time # currentTimeOf(t)

\* line 128: !alarm.isEnabled || alarm.time !== currentTime
SkipAlarm(alarm, t) == ~Truthy(alarm, "isEnabled") \/ alarm.time # currentTimeOf(t)

\* mutant of CheckAlarm: the alarm is recorded before its days are read
CheckAlarm_RecordFirst(st, alarm, group, t) ==
    IF SkipAlarm(alarm, t) THEN st
    ELSE IF ~Has(alarm, "days") THEN Throw([st EXCEPT !.id = alarm.id, !.time = t])
    ELSE IF isToday(alarm, currentDayOf(t)) /\ NotJustFired(alarm, st, t)
         THEN Notify(st, alarm, group, t)
         ELSE st

\* lines 128-145: the body of the inner loop
CheckAlarm(st, alarm, group, t) ==
    IF SkipAlarm(alarm, t) THEN st
    ELSE IF ~Has(alarm, "days") THEN Throw(st)     \* undefined.length: TypeError
    ELSE IF isToday(alarm, currentDayOf(t)) /\ NotJustFired(alarm, st, t)
         THEN Notify(st, alarm, group, t)
         ELSE st

RECURSIVE ScanAlarms_Backwards(_, _, _, _)
\* mutant of ScanAlarms: the alarms of a group are visited last to first
ScanAlarms_Backwards(st, group, j, t) ==
    IF st.returned \/ j > Len(group.alarms) THEN st
    ELSE ScanAlarms_Backwards(CheckAlarm(st, group.alarms[Len(group.alarms) + 1 - j], group, t),
                              group, j + 1, t)

RECURSIVE ScanAlarms(_, _, _, _)
\* line 127: for (const alarm of group.alarms)
ScanAlarms(st, group, j, t) ==
    IF st.returned \/ j > Len(group.alarms) THEN st
    ELSE ScanAlarms(CheckAlarm(st, group.alarms[j], group, t), group, j + 1, t)

\* line 126: !group.isEnabled
SkipGroup(group) == ~Truthy(group, "isEnabled")

\* lines 126-146: the body of the outer loop
CheckGroup(st, group, t) ==
    IF SkipGroup(group) THEN st
    ELSE IF ~Has(group, "alarms") THEN Throw(st)   \* undefined is not iterable: TypeError
    ELSE ScanAlarms(st, group, 1, t)

RECURSIVE ScanGroups(_, _, _, _)
\* line 125: for (const group of backgroundAlarmGroups)
ScanGroups(st, groups, i, t) ==
    IF st.returned \/ i > Len(groups) THEN st
    ELSE ScanGroups(CheckGroup(st, groups[i], t), groups, i + 1, t)

\* line 114: !backgroundAlarmGroups || backgroundAlarmGroups.length === 0
NothingToCheck(held) == held.type = "undefined" \/ Len(held.items) = 0

\* mutant of HeldAfter: a notified alarm is switched off in the held snapshot
HeldAfter_DisableNotified(st) ==
    IF st.calls = <<>> THEN backgroundAlarmGroups
    ELSE LET groups == backgroundAlarmGroups.items
             Off(a) == IF a.id = st.id /\ Has(a, "isEnabled")
                       THEN [a EXCEPT !.isEnabled = FALSE] ELSE a
             OffIn(g) == IF Has(g, "alarms")
                         THEN [g EXCEPT !.alarms = [j \in 1..Len(g.alarms) |-> Off(g.alarms[j])]]
                         ELSE g
         IN  Array([i \in 1..Len(groups) |-> OffIn(groups[i])])

\* lines 142-143: a run leaves the held snapshot alone, a notified one-time alarm included
HeldAfter(st) == backgroundAlarmGroups

\* mutant of checkBackgroundAlarms: the falsy test of line 114 is missing
checkBackgroundAlarms_LengthOnly(t) ==
    IF backgroundAlarmGroups.type = "undefined" THEN Throw(ScanStart)
    ELSE ScanGroups(ScanStart, backgroundAlarmGroups.items, 1, t)

\* lines 113-148: the scan state when checkBackgroundAlarms ends at instant t
checkBackgroundAlarms(t) ==
    IF NothingToCheck(backgroundAlarmGroups) THEN ScanStart
    ELSE ScanGroups(ScanStart, backgroundAlarmGroups.items, 1, t)

----------------------------------------------------------------------------
(* The host's interval timers *)

\* mutant of Stored: the delivered groups are appended to the groups held
Stored_Merged(data) ==
    IF Has(data, "alarms") /\ backgroundAlarmGroups.type = "array"
    THEN Array(backgroundAlarmGroups.items \o data.alarms)
    ELSE backgroundAlarmGroups

\* line 101: backgroundAlarmGroups = event.data.alarms
Stored(data) == IF Has(data, "alarms") THEN Array(data.alarms) ELSE Undefined

\* a handle that identifies no active timer (handles are positive integers)
FreshHandle(ts) == CHOOSE h \in 1..(Cardinality(DOMAIN ts) + 1) : h \notin DOMAIN ts

\* mutant of clearInterval: the timer is left running
clearInterval_Leak(ts, handle) == ts

\* clearInterval(handle)
clearInterval(ts, handle) == [h \in DOMAIN ts \ {handle} |-> ts[h]]

\* setInterval(checkBackgroundAlarms, delay) called at instant t, returning handle
setInterval(ts, handle, delay, t) == ts @@ (handle :> (t + delay))

----------------------------------------------------------------------------
(* History *)

NoTick == [ran |-> FALSE, threw |-> FALSE, id |-> NULL_ID, time |-> 0,
           fired |-> [i \in Ids |-> NEVER], presented |-> TRUE, refused |-> {}]

\* rearmedAt: the number of ticks of the minute run when the timer was last re-armed in it
NewMinute(fired) ==
    [ticks |-> 0, first |-> NEVER, fires |-> <<>>, before |-> fired, rearmedAt |-> NEVER]

NoUpdate == [ran |-> FALSE, data |-> [type |-> "none"], id |-> NULL_ID, time |-> 0]

\* the ids of the calls, each paired with the index k of the tick in its minute
RECURSIVE Fires(_, _)
Fires(calls, k) ==
    IF calls = <<>> THEN <<>> ELSE <<[id |-> Head(calls).tag, k |-> k]>> \o Fires(Tail(calls), k)

----------------------------------------------------------------------------
(* The state machine *)

Init ==
    /\ now = StartTime
    /\ alarmCheckInterval = 0
    /\ timers = <<>>
    /\ backgroundAlarmGroups = Array(<<>>)
    /\ lastNotifiedAlarmId = NULL_ID
    /\ lastNotificationTime = 0
    /\ notifications = <<>>
    /\ tick = NoTick
    /\ lastFired = [i \in Ids |-> NEVER]
    /\ snapshotSince = NEVER
    /\ minute = NewMinute([i \in Ids |-> NEVER])
    /\ refused = {}
    /\ update = NoUpdate

\* lines 98-111: the 'message' listener, for event.data = data
Message(data) ==
    IF data.type = "UPDATE_ALARMS"
    THEN LET held    == Stored(data)
             cleared == IF alarmCheckInterval # 0
                        THEN clearInterval(timers, alarmCheckInterval)
                        ELSE timers
             handle  == FreshHandle(cleared)
         IN  /\ backgroundAlarmGroups' = held
             /\ timers' = setInterval(cleared, handle, CHECK_INTERVAL, now)
             /\ alarmCheckInterval' = handle
             /\ snapshotSince' = IF held # backgroundAlarmGroups \/ snapshotSince = NEVER
                                 THEN now ELSE snapshotSince
             /\ notifications' = <<>>
             /\ tick' = NoTick
             /\ minute' = [minute EXCEPT !.rearmedAt = minute.ticks]
             /\ update' = [ran |-> TRUE, data |-> data, id |-> lastNotifiedAlarmId,
                           time |-> lastNotificationTime]
             /\ UNCHANGED <<now, lastNotifiedAlarmId, lastNotificationTime, lastFired, refused>>
    ELSE UNCHANGED vars

\* the host runs the callback of timer h, due at this instant: lines 113-148;
\* ok tells whether the host presents the notification asked for at line 163
\* (the promise of registration.showNotification is not awaited, a rejection changes nothing)
Tick(h, ok) ==
    /\ h \in DOMAIN timers
    /\ timers[h] <= now
    /\ LET st == checkBackgroundAlarms(now)
           k  == minute.ticks + 1
       IN  /\ lastNotifiedAlarmId' = st.id
           /\ lastNotificationTime' = st.time
           /\ notifications' = st.calls
           /\ tick' = [ran |-> TRUE, threw |-> st.threw, id |-> lastNotifiedAlarmId,
                       time |-> lastNotificationTime, fired |-> lastFired,
                       presented |-> (st.calls = <<>> \/ ok), refused |-> refused]
           /\ refused' = LET called == {st.calls[c].tag : c \in 1..Len(st.calls)}
                         IN  IF ok THEN refused \ called ELSE refused \cup called
           /\ lastFired' = [i \in Ids |->
                              IF \E c \in 1..Len(st.calls) : st.calls[c].tag = i
                              THEN now ELSE lastFired[i]]
           /\ minute' = [minute EXCEPT !.ticks = k,
                                       !.first = IF @ = NEVER THEN now ELSE @,
                                       !.fires = @ \o Fires(st.calls, k)]
    /\ backgroundAlarmGroups' = HeldAfter(checkBackgroundAlarms(now))
    /\ update' = NoUpdate
    /\ timers' = [timers EXCEPT ![h] = @ + CHECK_INTERVAL]
    /\ UNCHANGED <<now, alarmCheckInterval, snapshotSince>>

\* the clock advances while no timer is due
Advance ==
    /\ now + Step <= MaxTime
    /\ \A h \in DOMAIN timers : now + Step <= timers[h]
    /\ now' = now + Step
    /\ notifications' = <<>>
    /\ tick' = NoTick
    /\ update' = NoUpdate
    /\ minute' = IF MinuteStart(now + Step) # MinuteStart(now) THEN NewMinute(lastFired) ELSE minute
    /\ UNCHANGED <<alarmCheckInterval, timers, backgroundAlarmGroups, lastNotifiedAlarmId,
                   lastNotificationTime, lastFired, snapshotSince, refused>>

Next ==
    \/ \E data \in Messages : Message(data)
    \/ \E h \in DOMAIN timers, ok \in BOOLEAN : Tick(h, ok)
    \/ Advance

Spec == Init /\ [][Next]_vars

----------------------------------------------------------------------------
(* Vocabulary of the properties *)

\* the groups held, none when the snapshot is missing
Held == IF backgroundAlarmGroups.type = "array" THEN backgroundAlarmGroups.items ELSE <<>>

\* the places <<group index, alarm index>> of the alarms held, in store order
Positions ==
    UNION {{<<i, j>> : j \in 1..(IF Has(Held[i], "alarms") THEN Len(Held[i].alarms) ELSE 0)}
           : i \in 1..Len(Held)}

GroupAt(p) == Held[p[1]]

AlarmAt(p) == Held[p[1]].alarms[p[2]]

Before(q, p) == q[1] < p[1] \/ (q[1] = p[1] /\ q[2] < p[2])

\* enabled alarm in an enabled group
EnabledAt(p) == Truthy(GroupAt(p), "isEnabled") /\ Truthy(AlarmAt(p), "isEnabled")

\* section 4.2: the time of day equals the current minute
TimeMatches(a, t) == a.time = currentTimeOf(t)

\* section 4.2: days absent or empty matches every day, else the weekday is a member
DayMatches(a, t) ==
    \/ ~Has(a, "days")
    \/ a.days = <<>>
    \/ Includes(a.days, currentDayOf(t))

Due(a, t) == TimeMatches(a, t) /\ DayMatches(a, t)

\* the guard of line 134 on the dedup pair the tick of this instant started from
PermittedAtTick(a) == a.id # tick.id \/ (now - tick.time) > COOLDOWN

\* an enabled, due and permitted alarm precedes place p in store order
EarlierCandidate(p) ==
    \E q \in Positions :
        Before(q, p) /\ EnabledAt(q) /\ Due(AlarmAt(q), now) /\ PermittedAtTick(AlarmAt(q))

\* the tick of this instant notified exactly the alarm a
FiredAlone(a) == Len(notifications) = 1 /\ notifications[1].alarm = a

\* the alarm at p is the only enabled alarm due in the current minute
OnlyDue(p) ==
    /\ EnabledAt(p)
    /\ Due(AlarmAt(p), now)
    /\ \A q \in Positions : (EnabledAt(q) /\ Due(AlarmAt(q), now)) => q = p

\* the held snapshot was delivered before the current minute began
HeldAllMinute == snapshotSince # NEVER /\ snapshotSince < MinuteStart(now)

\* every group has its alarms and every alarm its days
WellFormed ==
    /\ \A i \in 1..Len(Held) : Has(Held[i], "alarms")
    /\ \A p \in Positions : Has(AlarmAt(p), "days")

FiresOf(id) == {k \in 1..Len(minute.fires) : minute.fires[k].id = id}

----------------------------------------------------------------------------
(* C1: two notifications of the same alarm id are more than COOLDOWN apart: *)
(* an id notified at instant t is not notified again by a tick at t' with   *)
(* t' - t <= COOLDOWN, whatever other alarms were notified in between.      *)
C1_CooldownPerId ==
    \A c \in 1..Len(notifications) :
        LET previous == tick.fired[notifications[c].tag]
        IN  previous = NEVER \/ now - previous > COOLDOWN

(* C2: one run of checkBackgroundAlarms calls showNotification at most once, *)
(* also when two or more enabled alarms are due and permitted.               *)
C2_AtMostOnePerTick == Len(notifications) <= 1

\* a tick that notified one alarm while a second one was due and permitted too
C2_Witness ==
    /\ tick.ran
    /\ Len(notifications) = 1
    /\ Cardinality({p \in Positions : /\ EnabledAt(p)
                                      /\ Due(AlarmAt(p), now)
                                      /\ PermittedAtTick(AlarmAt(p))}) >= 2

(* C3: no timer is armed before the first UPDATE_ALARMS message, and exactly *)
(* one, the one alarmCheckInterval names, after it and after any further     *)
(* updates and ticks.                                                        *)
C3_ExactlyOneTimer ==
    IF snapshotSince = NEVER
    THEN DOMAIN timers = {} /\ alarmCheckInterval = 0
    ELSE DOMAIN timers = {alarmCheckInterval} /\ alarmCheckInterval # 0

\* a tick of the timer re-armed by an update that followed an earlier notification
C3_Witness ==
    /\ tick.ran
    /\ \E i \in Ids : lastFired[i] # NEVER /\ lastFired[i] < snapshotSince
    /\ Cardinality(DOMAIN timers) = 1

(* C4: with a snapshot delivered before minute M began and not changed since, *)
(* an enabled alarm that is the only one due in M, its id not notified in the *)
(* COOLDOWN before M, is notified in M at most CHECK_INTERVAL after M began,  *)
(* whatever updates re-deliver the snapshot.  Stated for well-formed          *)
(* snapshots, where no tick throws.                                           *)
C4_FiredWithinInterval ==
    \A p \in Positions :
        ( /\ WellFormed
          /\ HeldAllMinute
          /\ OnlyDue(p)
          /\ \/ minute.before[AlarmAt(p).id] = NEVER
             \/ MinuteStart(now) - minute.before[AlarmAt(p).id] > COOLDOWN
          /\ now - MinuteStart(now) > CHECK_INTERVAL )
        => FiresOf(AlarmAt(p).id) # {}

(* C5: an alarm whose isEnabled is false or absent, or whose group's          *)
(* isEnabled is false or absent, is never notified.                           *)
C5_DisabledNeverFires ==
    \A c \in 1..Len(notifications) :
        /\ Truthy(notifications[c].alarm, "isEnabled")
        /\ Truthy(notifications[c].group, "isEnabled")

\* a tick that ended normally and passed over a due, permitted alarm that is not enabled
C5_Witness ==
    /\ tick.ran
    /\ ~tick.threw
    /\ notifications = <<>>
    /\ \E p \in Positions :
          /\ ~EnabledAt(p)
          /\ Due(AlarmAt(p), now)
          /\ PermittedAtTick(AlarmAt(p))

(* C6: an alarm with a non-empty days array is notified only at ticks whose   *)
(* weekday is in the array; for an alarm with an empty days array the weekday *)
(* test of line 130 passes on every weekday.                                  *)
C6_DaysRestrictFiring ==
    /\ \A c \in 1..Len(notifications) :
          LET days == notifications[c].alarm.days
          IN  days # <<>> => Includes(days, currentDayOf(now))
    /\ \A p \in Positions :
          (Has(AlarmAt(p), "days") /\ AlarmAt(p).days = <<>>)
              => isToday(AlarmAt(p), currentDayOf(now))

\* a tick passed over an enabled, permitted alarm at its time on a weekday outside its days
C6_Witness ==
    /\ tick.ran
    /\ notifications = <<>>
    /\ \E p \in Positions :
          /\ EnabledAt(p)
          /\ TimeMatches(AlarmAt(p), now)
          /\ PermittedAtTick(AlarmAt(p))
          /\ Has(AlarmAt(p), "days")
          /\ AlarmAt(p).days # <<>>
          /\ ~Includes(AlarmAt(p).days, currentDayOf(now))

(* C7: an enabled alarm that is the only one due in a minute, its id not      *)
(* notified in the COOLDOWN before the first tick of the minute, is notified  *)
(* exactly once in that minute, by the first tick of the minute.              *)
C7_OncePerMinuteAtFirstTick ==
    \A p \in Positions :
        ( /\ HeldAllMinute
          /\ OnlyDue(p)
          /\ minute.ticks >= 1
          /\ \/ minute.before[AlarmAt(p).id] = NEVER
             \/ minute.first - minute.before[AlarmAt(p).id] > COOLDOWN )
        => /\ Cardinality(FiresOf(AlarmAt(p).id)) = 1
           /\ \A f \in FiresOf(AlarmAt(p).id) : minute.fires[f].k = 1

(* C8: an alarm notified at instant t and due at a tick at t' with            *)
(* t' - t > COOLDOWN, no earlier alarm in store order being due and           *)
(* permitted, is notified by that tick.                                       *)
C8_RefiresAfterCooldown ==
    tick.ran =>
        \A p \in Positions :
            ( /\ EnabledAt(p)
              /\ Due(AlarmAt(p), now)
              /\ tick.fired[AlarmAt(p).id] # NEVER
              /\ now - tick.fired[AlarmAt(p).id] > COOLDOWN
              /\ ~EarlierCandidate(p) )
            => FiredAlone(AlarmAt(p))

(* C9: a group without an alarms collection counts as empty: a tick over a    *)
(* snapshot with such an enabled group ahead of another enabled group still   *)
(* notifies the first due, enabled, permitted alarm of the later group.       *)
C9_AbsentAlarmsIsEmpty ==
    tick.ran =>
        \A p \in Positions :
            ( /\ \E i \in 1..(p[1] - 1) :
                    Truthy(Held[i], "isEnabled") /\ ~Has(Held[i], "alarms")
              /\ EnabledAt(p)
              /\ Has(AlarmAt(p), "days")
              /\ Due(AlarmAt(p), now)
              /\ PermittedAtTick(AlarmAt(p))
              /\ ~EarlierCandidate(p) )
            => FiredAlone(AlarmAt(p))

(* C10: an enabled alarm in an enabled group whose days field is absent       *)
(* matches every day: at a tick in the minute of its time, permitted by the   *)
(* guard and with no earlier alarm due and permitted, it is notified.         *)
C10_AbsentDaysMatchEveryDay ==
    tick.ran =>
        \A p \in Positions :
            ( /\ \A i \in 1..Len(Held) : Has(Held[i], "alarms")
              /\ EnabledAt(p)
              /\ ~Has(AlarmAt(p), "days")
              /\ TimeMatches(AlarmAt(p), now)
              /\ PermittedAtTick(AlarmAt(p))
              /\ ~EarlierCandidate(p) )
            => FiredAlone(AlarmAt(p))

(* C7 and C8 on well-formed snapshots, where no tick throws *)
C7_WellFormedSnapshots == WellFormed => C7_OncePerMinuteAtFirstTick

C8_WellFormedSnapshots == WellFormed => C8_RefiresAfterCooldown

\* an alarm notified a second time, more than COOLDOWN after the first
C8_RefiredState ==
    /\ tick.ran
    /\ \E c \in 1..Len(notifications) :
          LET previous == tick.fired[notifications[c].tag]
          IN  previous # NEVER /\ now - previous > COOLDOWN

\* two ticks observed the only due alarm in one minute
C7_TwoTicksState ==
    /\ WellFormed
    /\ HeldAllMinute
    /\ minute.ticks >= 2
    /\ \E p \in Positions : OnlyDue(p) /\ FiresOf(AlarmAt(p).id) # {}

----------------------------------------------------------------------------
(* C11: a tick that meets a group without alarms or a due alarm without days *)
(* (it throws) notifies nothing and disarms nothing: after it the snapshot   *)
(* and the dedup pair are as before, the timer alarmCheckInterval names is   *)
(* still the only one armed, and its next tick is due CHECK_INTERVAL later.  *)
C11_ThrowingTickKeepsTimer ==
    [][ (tick'.ran /\ tick'.threw) =>
            /\ notifications' = <<>>
            /\ backgroundAlarmGroups' = backgroundAlarmGroups
            /\ lastNotifiedAlarmId' = lastNotifiedAlarmId
            /\ lastNotificationTime' = lastNotificationTime
            /\ lastFired' = lastFired
            /\ alarmCheckInterval' = alarmCheckInterval
            /\ DOMAIN timers' = {alarmCheckInterval}
            /\ timers'[alarmCheckInterval] = now + CHECK_INTERVAL ]_vars

\* a tick that threw, run by the timer that an earlier throwing tick left armed
C11_Witness ==
    /\ tick.ran
    /\ tick.threw
    /\ minute.ticks >= 2
    /\ HeldAllMinute
    /\ DOMAIN timers = {alarmCheckInterval}

(* C12: when the host refuses to present a granted notification, the dedup   *)
(* pair still records the alarm's id and the instant of that tick, and no    *)
(* tick within COOLDOWN of a refused notification notifies that id again.    *)
C12_RefusedStillRecorded ==
    tick.ran =>
        \A c \in 1..Len(notifications) :
            LET id == notifications[c].tag
            IN  /\ ~tick.presented =>
                      (lastNotifiedAlarmId = id /\ lastNotificationTime = now)
                /\ id \in tick.refused => now - tick.fired[id] > COOLDOWN

(* the first half of C12 alone: a refused notification is recorded all the same *)
C12_RecordedPart ==
    (tick.ran /\ ~tick.presented) =>
        /\ Len(notifications) = 1
        /\ lastNotifiedAlarmId = notifications[1].tag
        /\ lastNotificationTime = now

\* a tick within COOLDOWN of a refused notification passing over that alarm, due again
C12_DeniedAfterRefusal ==
    /\ tick.ran
    /\ notifications = <<>>
    /\ \E p \in Positions :
          /\ EnabledAt(p)
          /\ Due(AlarmAt(p), now)
          /\ AlarmAt(p).id \in refused
          /\ ~PermittedAtTick(AlarmAt(p))

(* C13: the alarm a tick notifies is the first one in store order among the  *)
(* alarms that are enabled, in an enabled group, due and permitted by the    *)
(* dedup guard; when no alarm is all of that the tick notifies nothing.      *)
C13_FirstCandidateFires ==
    tick.ran =>
        /\ \A c \in 1..Len(notifications) :
              \E p \in Positions :
                  /\ AlarmAt(p) = notifications[c].alarm
                  /\ GroupAt(p) = notifications[c].group
                  /\ EnabledAt(p)
                  /\ Due(AlarmAt(p), now)
                  /\ PermittedAtTick(AlarmAt(p))
                  /\ ~EarlierCandidate(p)
        /\ (\A p \in Positions :
               (EnabledAt(p) /\ Due(AlarmAt(p), now)) => ~PermittedAtTick(AlarmAt(p)))
           => notifications = <<>>

\* a tick that notified the second alarm in store order, the first one being
\* enabled and due but denied by the dedup guard
C13_Witness ==
    /\ tick.ran
    /\ Len(notifications) = 1
    /\ \E p, q \in Positions :
          /\ Before(q, p)
          /\ AlarmAt(p) = notifications[1].alarm
          /\ EnabledAt(q)
          /\ Due(AlarmAt(q), now)
          /\ ~PermittedAtTick(AlarmAt(q))

\* a tick that notified nothing although an enabled alarm was due: the guard denied it
C13_AllDenied ==
    /\ tick.ran /\ ~tick.threw
    /\ notifications = <<>>
    /\ \E p \in Positions : EnabledAt(p) /\ Due(AlarmAt(p), now)

\* the alarm at p was passed over in this minute: an alarm ahead of it was notified
PassedOver(p) ==
    \E q \in Positions : Before(q, p) /\ EnabledAt(q) /\ FiresOf(AlarmAt(q).id) # {}

(* C14: of the enabled alarms due in one minute, an alarm passed over because *)
(* an alarm ahead of it was notified is notified by a later tick of that      *)
(* minute: when the minute ends every alarm that was due in it was notified.  *)
C14_EveryDueAlarmFiresInItsMinute ==
    [][ (/\ MinuteStart(now') # MinuteStart(now)
         /\ WellFormed
         /\ HeldAllMinute
         /\ minute.ticks >= 2)
        => \A p \in Positions :
               (EnabledAt(p) /\ Due(AlarmAt(p), now) /\ PassedOver(p))
                   => FiresOf(AlarmAt(p).id) # {} ]_vars

(* two ticks serve two alarms: with at most two enabled alarms due, the one *)
(* passed over at the first tick was notified when the minute ends          *)
C14_TwoDueAlarmsBothFire ==
    [][ (/\ MinuteStart(now') # MinuteStart(now)
         /\ WellFormed
         /\ HeldAllMinute
         /\ minute.ticks >= 2
         /\ Cardinality({p \in Positions : EnabledAt(p) /\ Due(AlarmAt(p), now)}) <= 2)
        => \A p \in Positions :
               (EnabledAt(p) /\ Due(AlarmAt(p), now) /\ PassedOver(p))
                   => FiresOf(AlarmAt(p).id) # {} ]_vars

\* the second of two due alarms notified by the second tick of their minute
C14_SecondAlarmServed ==
    /\ tick.ran /\ minute.ticks = 2 /\ HeldAllMinute
    /\ \E p \in Positions :
          /\ PassedOver(p)
          /\ Len(notifications) = 1
          /\ notifications[1].alarm = AlarmAt(p)

\* the hour and minute an alarm's time of day names
HourMinute == ("23:59" :> <<23, 59>>) @@ ("00:00" :> <<0, 0>>)

\* the hour and minute of the wall clock at instant t
WallClock(t) == <<getHours(t), getMinutes(t)>>

(* C15: an alarm is notified only by ticks inside the minute its zero-padded *)
(* HH:MM names, and a tick at any second of that minute matches it: it       *)
(* notifies when an enabled alarm of that minute is due today and permitted. *)
C15_ExactMinuteMatch ==
    tick.ran =>
        /\ \A c \in 1..Len(notifications) :
              HourMinute[notifications[c].alarm.time] = WallClock(now)
        /\ (/\ ~tick.threw
            /\ \E p \in Positions :
                  /\ EnabledAt(p)
                  /\ HourMinute[AlarmAt(p).time] = WallClock(now)
                  /\ DayMatches(AlarmAt(p), now)
                  /\ PermittedAtTick(AlarmAt(p)))
           => notifications # <<>>

\* a tick notifying the alarm of 00:00 in the middle of its minute
C15_Witness ==
    /\ tick.ran
    /\ Len(notifications) = 1
    /\ notifications[1].alarm.time = "00:00"
    /\ now % MsPerMinute # 0

\* a tick of the following minute passing over an enabled, permitted alarm
C15_NextMinuteSilent ==
    /\ tick.ran /\ ~tick.threw
    /\ notifications = <<>>
    /\ \E p \in Positions :
          /\ EnabledAt(p)
          /\ HourMinute[AlarmAt(p).time] = WallClock(now - MsPerMinute)
          /\ DayMatches(AlarmAt(p), now)
          /\ PermittedAtTick(AlarmAt(p))

(* C16: the dedup pair changes only when a tick notifies: that tick records  *)
(* the id of the notified alarm and its own instant; a tick that notifies    *)
(* nothing, and every other step, leaves the pair as it was.                 *)
C16_DedupChangesOnlyOnFiring ==
    [][ IF tick'.ran /\ notifications' # <<>>
        THEN /\ lastNotifiedAlarmId' = notifications'[1].alarm.id
             /\ lastNotificationTime' = now
             /\ now' = now
        ELSE /\ lastNotifiedAlarmId' = lastNotifiedAlarmId
             /\ lastNotificationTime' = lastNotificationTime ]_vars

\* a tick that notified nothing and kept the record of an earlier notification,
\* the recorded alarm being due again
C16_Witness ==
    /\ tick.ran /\ ~tick.threw
    /\ notifications = <<>>
    /\ lastNotifiedAlarmId # NULL_ID
    /\ lastNotificationTime < now
    /\ \E p \in Positions :
          /\ EnabledAt(p)
          /\ Due(AlarmAt(p), now)
          /\ AlarmAt(p).id = lastNotifiedAlarmId

(* C17: a tick changes neither the held snapshot nor the timer handle: the   *)
(* alarm it notified is still held, still enabled, and the timer still armed. *)
C17_TickKeepsSnapshotAndTimer ==
    [][ tick'.ran =>
            /\ backgroundAlarmGroups' = backgroundAlarmGroups
            /\ alarmCheckInterval' = alarmCheckInterval
            /\ DOMAIN timers' = DOMAIN timers ]_vars

\* after a tick the alarm it notified is held and enabled, the timer is armed
C17_Witness ==
    /\ tick.ran
    /\ Len(notifications) = 1
    /\ \E p \in Positions : AlarmAt(p) = notifications[1].alarm /\ EnabledAt(p)
    /\ DOMAIN timers = {alarmCheckInterval}
    /\ timers[alarmCheckInterval] = now + CHECK_INTERVAL

\* the id was notified in the current minute before the last update of that minute
FiredBeforeUpdate(id) ==
    /\ minute.rearmedAt # NEVER
    /\ \E k \in FiresOf(id) : minute.fires[k].k <= minute.rearmedAt

(* C18: an update makes the delivered value the held snapshot, whatever was  *)
(* held, and leaves the dedup pair as it was; an alarm notified before an    *)
(* update and still due after it is not notified again by the ticks of the   *)
(* re-armed timer in that minute.                                            *)
C18_UpdateReplacesAndKeepsDedup ==
    /\ update.ran =>
          /\ backgroundAlarmGroups =
                 (IF "alarms" \in DOMAIN update.data
                  THEN [type |-> "array", items |-> update.data.alarms]
                  ELSE [type |-> "undefined"])
          /\ lastNotifiedAlarmId = update.id
          /\ lastNotificationTime = update.time
    /\ tick.ran =>
          \A c \in 1..Len(notifications) :
              \A k \in FiresOf(notifications[c].tag) :
                  minute.rearmedAt # NEVER => minute.fires[k].k > minute.rearmedAt

\* a tick of the re-armed timer denying an alarm that was notified before the
\* update and is still due and enabled in the snapshot that replaced a different one
C18_Witness ==
    /\ tick.ran /\ ~tick.threw
    /\ \E p \in Positions :
          /\ snapshotSince > lastFired[AlarmAt(p).id]
          /\ EnabledAt(p)
          /\ Due(AlarmAt(p), now)
          /\ FiredBeforeUpdate(AlarmAt(p).id)
          /\ ~PermittedAtTick(AlarmAt(p))
          /\ \A c \in 1..Len(notifications) : notifications[c].tag # AlarmAt(p).id

\* an update handled while a dedup record was held
C18_UpdateAfterFiring ==
    /\ update.ran
    /\ lastNotifiedAlarmId # NULL_ID
    /\ Len(Held) = 2

(* C19: a tick that finds the snapshot missing or empty does nothing: no     *)
(* notification, no error, the dedup pair and the timer as before; a worker  *)
(* that never received an update never notifies.                             *)
C19_NothingHeldNothingDone ==
    /\ (tick.ran /\ (backgroundAlarmGroups.type = "undefined" \/ Held = <<>>)) =>
          /\ notifications = <<>>
          /\ ~tick.threw
          /\ lastNotifiedAlarmId = tick.id
          /\ lastNotificationTime = tick.time
          /\ lastFired = tick.fired
          /\ DOMAIN timers = {alarmCheckInterval}
          /\ timers[alarmCheckInterval] = now + CHECK_INTERVAL
    /\ snapshotSince = NEVER =>
          /\ notifications = <<>>
          /\ \A i \in Ids : lastFired[i] = NEVER
          /\ lastNotifiedAlarmId = NULL_ID

\* a tick that found the snapshot missing, an earlier notification being on record
C19_Witness ==
    /\ tick.ran
    /\ backgroundAlarmGroups.type = "undefined"
    /\ lastNotifiedAlarmId # NULL_ID

\* a tick that found the snapshot empty
C19_EmptySnapshotTick ==
    /\ tick.ran
    /\ backgroundAlarmGroups.type = "array"
    /\ Held = <<>>

====
